---- MODULE Spec2Model ----
(***************************************************************************)
(* Model of lib/agents.py: the Agent controller (invoke), its three step   *)
(* functions (message_prep, llm_processor, tool_executor), the router      *)
(* check_tool_calls, and the collaborators it drives (graph executor,      *)
(* session memory, model client, tools).                                   *)
(*                                                                         *)
(* Python lists are objects: a list is an address into `heap`, so that an  *)
(* in-place append (list.append) is seen by every holder of the list,      *)
(* while `a + b` allocates a new list.                                     *)
(***************************************************************************)
EXTENDS Integers, Sequences, FiniteSets, TLC

\* ------------------------------------------------------------------ bounds
\* Total number of model invocations over a whole behaviour.
MaxModelCalls == 3

\* ---------------------------------------------------------------- constants
Threads == {1, 2}

None == "<None>"
NoRun == 0

instructions == "be helpful"

\* Session ids a caller may pass to invoke (None = argument omitted).
SessionArgs == {None, "", "s1"}
Queries == {"q1", "q2"}

\* Names of the tools the agent was constructed with (self.tools).
ToolNames == {"search", "lookup"}

\* ------------------------------------------------------ optional values
NoCalls == [isNone |-> TRUE, calls |-> <<>>]
SomeCalls(l) == [isNone |-> FALSE, calls |-> l]

NoUsage == [isNone |-> TRUE, total_tokens |-> 0]
Usage(n) == [isNone |-> FALSE, total_tokens |-> n]

\* Python truthiness of an Optional[List]: None and [] are falsy.
Truthy(tc) == ~tc.isNone /\ tc.calls # <<>>

\* ------------------------------------------------------------ tool calls
ToolCall(id, name, args) == [id |-> id, name |-> name, arguments |-> args]

\* The tool-call lists a model response may carry.  Call ids are made
\* unique per model invocation n, as the model client delivers them.
ToolCallLists(n) ==
  LET p == "call_" \o ToString(n) \o "_" IN
  { <<>>,
    << ToolCall(p \o "1", "search", "{\"k\": 1}") >>,
    << ToolCall(p \o "1", "bogus", "{\"k\": 1}"),
       ToolCall(p \o "2", "search", "{oops"),
       ToolCall(p \o "3", "lookup", "{\"k\": 1}") >>,
    << ToolCall(p \o "1", "lookup", "[1]") >> }

Usages == {NoUsage, Usage(2)}

\* A model response: content, tool_calls (list, possibly empty), token_usage.
Responses(n) ==
  { [content |-> "answer", tool_calls |-> l, token_usage |-> u] :
      l \in ToolCallLists(n), u \in Usages }

\* json.loads on the argument texts the model may send: a JSON object gives
\* a dict, another JSON value gives a non-dict, invalid text raises
\* JSONDecodeError.
JsonLoads(text) ==
  CASE text = "{\"k\": 1}" -> [raises |-> FALSE, kind |-> "dict", v |-> "k=1"]
    [] text = "{}"         -> [raises |-> FALSE, kind |-> "dict", v |-> ""]
    [] text = "[1]"        -> [raises |-> FALSE, kind |-> "list", v |-> "1"]
    [] OTHER               -> [raises |-> TRUE, kind |-> "none", v |-> ""]

EmptyArgs == [raises |-> FALSE, kind |-> "dict", v |-> ""]

\* json.dumps(result, default=str) of a string result: the quoted string.
JsonDumps(result) == "\"" \o result \o "\""

\* tool(**function_args): the result of the named tool on keyword arguments.
ToolResult(name, args) == name \o "(" \o args.v \o ")"

\* uuid.uuid4(): the n-th fresh value.
TempSessionId(n) == "temp_session_" \o ToString(n)

\* -------------------------------------------------------------- messages
\* `by` is an auxiliary tag: the number of the invoke call that created the
\* entry.  It is not read by the program.
Msg(role, content, tcs, id, name, by) ==
  [role |-> role, content |-> content, tool_calls |-> tcs,
   tool_call_id |-> id, name |-> name, by |-> by]

SystemMessage(content, by) == Msg("system", content, NoCalls, "", "", by)
UserMessage(content, by) == Msg("user", content, NoCalls, "", "", by)
AIMessage(content, tcs, by) == Msg("assistant", content, tcs, "", "", by)
ToolMessage(content, id, name, by) == Msg("tool", content, NoCalls, id, name, by)

VARIABLES
  heap,        \* list objects: address -> sequence of messages
  runs,        \* Run objects: run id -> [history]
  memory,      \* ShortTermMemory: session id -> id of the last Run (NoRun: none)
  uuidCount,   \* number of uuid4() values drawn
  modelCalls,  \* number of model invocations made
  invCount,    \* number of invoke calls started
  th,          \* per caller: position in invoke and its local variables
  returned,    \* auxiliary: id -> the Run as it was when invoke returned it
  lastOf       \* auxiliary: session argument -> the Run last returned for it

vars == <<heap, runs, memory, uuidCount, modelCalls, invCount, th, returned,
          lastOf>>

\* ----------------------------------------------------------- Run objects
\* Run.get_final_state(): the state of the last record.
GetFinalState(run) == run.history[Len(run.history)].state

\* A state with its transcript read out of the heap.
DeepState(h, st) == [st EXCEPT !.messages = h[st.messages]]

\* A Run with every recorded transcript read out of the heap.
DeepRun(h, run) ==
  [history |-> [i \in 1..Len(run.history) |->
      [step |-> run.history[i].step,
       state |-> DeepState(h, run.history[i].state)]]]

\* What session memory holds, by value (NoRun where a session has no Run).
DeepMemory(h, rs, mem) ==
  [s \in DOMAIN mem |->
     IF mem[s] = NoRun THEN [history |-> <<>>] ELSE DeepRun(h, rs[mem[s]])]

\* ------------------------------------------------------- session memory
CreateSession(mem, sid) ==
  IF sid \in DOMAIN mem THEN mem ELSE mem @@ (sid :> NoRun)

GetLastObject(mem, sid) == mem[sid]

MemoryAdd(mem, runId, sid) == [mem EXCEPT ![sid] = runId]

\* ------------------------------------------------------- graph executor
\* Key-wise overwrite of the state by a step's partial update.
Merge(state, update) ==
  [k \in DOMAIN state \cup DOMAIN update |->
     IF k \in DOMAIN update THEN update[k] ELSE state[k]]

Record(step, state) == [step |-> step, state |-> state]

\* The router with its two targets exchanged.
check_tool_calls_swapped(state) ==
  IF Truthy(state.current_tool_calls) THEN "termination" ELSE "tool_executor"

\* The router of the llm_processor node.
check_tool_calls(state) ==
  IF Truthy(state.current_tool_calls) THEN "tool_executor" ELSE "termination"

Idle ==
  [pc |-> "idle", arg |-> None, query |-> "", is_new_session |-> FALSE,
   session_id |-> None, inv |-> 0, state |-> <<>>, history |-> <<>>,
   result |-> NoRun, error |-> "", pre |-> <<>>, seed |-> <<>>,
   before |-> [history |-> <<>>], toolRounds |-> 0, reported |-> 0,
   runsAtStart |-> 0, mine |-> {}]

Init ==
  /\ heap = <<>>
  /\ runs = <<>>
  /\ memory = <<>>
  /\ uuidCount = 0
  /\ modelCalls = 0
  /\ invCount = 0
  /\ th = [t \in Threads |-> Idle]
  /\ returned = <<>>
  /\ lastOf = [a \in SessionArgs \cup {"s2"} |-> [history |-> <<>>]]

\* --------------------------------------------------------------- invoke
\* `session_id or f"temp_session_{uuid.uuid4()}"`: None and "" are falsy.
Falsy(s) == s = None \/ s = ""

\* The session handling before the temporary ids: one shared default session.
SessionOfShared(arg, n) ==
  [is_new_session |-> FALSE,
   session_id |-> IF Falsy(arg) THEN "default" ELSE arg]

\* is_new_session and session_id as invoke computes them from its argument;
\* n numbers the uuid4() value drawn when one is needed.
SessionOf(arg, n) ==
  [is_new_session |-> arg = None,
   session_id |-> IF Falsy(arg) THEN TempSessionId(n) ELSE arg]

\* Agent.invoke up to the call of workflow.run: the session id, the session,
\* the previous messages and the initial state.
Invoke(t, query, arg) ==
  /\ th[t].pc \in {"idle", "returned", "failed"}
  /\ modelCalls < MaxModelCalls
  /\ LET is_new_session == SessionOf(arg, uuidCount + 1).is_new_session
         session_id == SessionOf(arg, uuidCount + 1).session_id
         mem1 == CreateSession(memory, session_id)
         last_run == IF is_new_session THEN NoRun
                     ELSE GetLastObject(mem1, session_id)
         loaded == /\ last_run # NoRun
                   /\ heap[GetFinalState(runs[last_run]).messages] # <<>>
         \* previous_messages = [] is a new list object
         heap1 == Append(heap, <<>>)
         previous_messages == IF loaded
                              THEN GetFinalState(runs[last_run]).messages
                              ELSE Len(heap1)
         initial_state ==
           [user_query |-> query, instructions |-> instructions,
            messages |-> previous_messages, current_tool_calls |-> NoCalls,
            session_id |-> session_id, total_tokens |-> 0]
     IN /\ uuidCount' = IF Falsy(arg) THEN uuidCount + 1 ELSE uuidCount
        /\ memory' = mem1
        /\ heap' = heap1
        /\ invCount' = invCount + 1
        /\ th' = [th EXCEPT ![t] =
              [pc |-> "message_prep", arg |-> arg, query |-> query,
               is_new_session |-> is_new_session, session_id |-> session_id,
               inv |-> invCount + 1, state |-> initial_state,
               history |-> <<>>, result |-> NoRun, error |-> "",
               pre |-> DeepMemory(heap, runs, memory),
               seed |-> heap1[previous_messages],
               before |-> lastOf[arg],
               toolRounds |-> 0, reported |-> 0,
               runsAtStart |-> Len(runs),
               mine |-> th[t].mine \cup {invCount + 1}]]
  /\ UNCHANGED <<runs, modelCalls, returned, lastOf>>

\* One executor iteration: merge the step's update, record it, move on.
Applied(t, step, update, next) ==
  LET state == Merge(th[t].state, update) IN
  [th[t] EXCEPT !.state = state,
                !.history = Append(@, Record(step, state)),
                !.pc = next]

\* The test of the seeding inverted: `if messages:`.
SeededInverted(messages) == messages # <<>>

\* `if not messages:` the transcript is seeded with the system entry.
Seeded(messages) == messages = <<>>

\* A partial update that also resets the pending tool calls to [].
PrepareUpdateClearing(state, messages) ==
  [messages |-> messages, session_id |-> state.session_id,
   current_tool_calls |-> SomeCalls(<<>>)]

\* The partial update message_prep returns.
PrepareUpdate(state, messages) ==
  [messages |-> messages, session_id |-> state.session_id]

\* Agent._prepare_messages_step
PrepareMessagesStep(t) ==
  /\ th[t].pc = "message_prep"
  /\ LET state == th[t].state
         old == state.messages
         seeded == Seeded(heap[old])
         \* `if not messages: messages = [SystemMessage(...)]` is a new list
         heap1 == IF seeded
                  THEN Append(heap, <<SystemMessage(state.instructions, th[t].inv)>>)
                  ELSE heap
         messages == IF seeded THEN Len(heap1) ELSE old
         \* messages.append(...) changes the list object in place
         heap2 == [heap1 EXCEPT ![messages] =
                     Append(@, UserMessage(state.user_query, th[t].inv))]
         update == PrepareUpdate(state, messages)
     IN /\ heap' = heap2
        /\ th' = [th EXCEPT ![t] = Applied(t, "message_prep", update, "llm_processor")]
  /\ UNCHANGED <<runs, memory, uuidCount, modelCalls, invCount, returned, lastOf>>

\* The counter overwritten by the last report instead of accumulated.
LlmUpdateOverwrite(state, response, addr, by) ==
  [messages |-> addr,
   current_tool_calls |-> IF response.tool_calls # <<>>
                          THEN SomeCalls(response.tool_calls) ELSE NoCalls,
   session_id |-> state.session_id,
   total_tokens |-> response.token_usage.total_tokens]

\* The session id read under a key the state does not have.
LlmUpdateNoSession(state, response, addr, by) ==
  [messages |-> addr,
   current_tool_calls |-> IF response.tool_calls # <<>>
                          THEN SomeCalls(response.tool_calls) ELSE NoCalls,
   session_id |-> None,
   total_tokens |-> IF response.token_usage.isNone
                    THEN state.total_tokens
                    ELSE state.total_tokens + response.token_usage.total_tokens]

\* Agent._llm_step on a response of the model client
LlmUpdate(state, response, addr, by) ==
  LET tool_calls == IF response.tool_calls # <<>>
                    THEN SomeCalls(response.tool_calls) ELSE NoCalls
      current_total == IF response.token_usage.isNone
                       THEN state.total_tokens
                       ELSE state.total_tokens + response.token_usage.total_tokens
  IN [messages |-> addr, current_tool_calls |-> tool_calls,
      session_id |-> state.session_id, total_tokens |-> current_total]

LlmStep(t, response) ==
  /\ th[t].pc = "llm_processor"
  /\ modelCalls < MaxModelCalls
  /\ (modelCalls + 1 = MaxModelCalls => response.tool_calls = <<>>)
  /\ LET state == th[t].state
         tool_calls == IF response.tool_calls # <<>>
                       THEN SomeCalls(response.tool_calls) ELSE NoCalls
         ai_message == AIMessage(response.content, tool_calls, th[t].inv)
         \* state["messages"] + [ai_message] is a new list
         heap1 == Append(heap, Append(heap[state.messages], ai_message))
         update == LlmUpdate(state, response, Len(heap1), th[t].inv)
         next == check_tool_calls(Merge(state, update))
         after == Applied(t, "llm_processor", update, next)
     IN /\ heap' = heap1
        /\ th' = [th EXCEPT ![t] =
              [after EXCEPT
                 !.toolRounds = IF response.tool_calls # <<>> THEN @ + 1 ELSE @,
                 !.reported = @ + response.token_usage.total_tokens]]
  /\ modelCalls' = modelCalls + 1
  /\ UNCHANGED <<runs, memory, uuidCount, invCount, returned, lastOf>>

\* llm.invoke raises: the executor does not catch it, invoke returns no Run.
LlmRaise(t) ==
  /\ th[t].pc = "llm_processor"
  /\ modelCalls < MaxModelCalls
  /\ modelCalls' = modelCalls + 1
  /\ th' = [th EXCEPT ![t] = [@ EXCEPT !.pc = "failed", !.error = "model",
                                       !.history = <<>>, !.state = <<>>]]
  /\ UNCHANGED <<heap, runs, memory, uuidCount, invCount, returned, lastOf>>

\* ------------------------------------------------------------ tool step
\* json.loads with the JSONDecodeError handler of the loop body.
FunctionArgs(call) ==
  LET parsed == JsonLoads(call.arguments) IN
  IF parsed.raises THEN EmptyArgs ELSE parsed

\* A lookup that finds a tool whatever the name.
FindToolAny(name) == TRUE

\* next((t for t in self.tools if t.name == function_name), None)
FindTool(name) == name \in ToolNames

\* tool(**function_args) needs a mapping: anything else is a TypeError.
CallRaises(call) == FindTool(call.name) /\ FunctionArgs(call).kind # "dict"

\* The loop of _tool_step with each message put in front of the list.
RECURSIVE ToolMessagesReversed(_, _)
ToolMessagesReversed(calls, by) ==
  IF calls = <<>> THEN <<>>
  ELSE LET call == Head(calls)
           rest == ToolMessagesReversed(Tail(calls), by)
       IN IF call.name \in ToolNames
          THEN rest \o <<ToolMessage(
                 JsonDumps(ToolResult(call.name,
                   IF JsonLoads(call.arguments).raises
                   THEN EmptyArgs ELSE JsonLoads(call.arguments))),
                 call.id, call.name, by)>>
          ELSE rest

\* The loop of _tool_step: the tool messages of the calls, in order.
RECURSIVE ToolMessages(_, _)
ToolMessages(calls, by) ==
  IF calls = <<>> THEN <<>>
  ELSE LET call == Head(calls)
           rest == ToolMessages(Tail(calls), by)
       IN IF FindTool(call.name)
          THEN <<ToolMessage(JsonDumps(ToolResult(call.name, FunctionArgs(call))),
                             call.id, call.name, by)>> \o rest
          ELSE rest

\* The step raises when it iterates over None or when a tool call raises.
ToolStepRaises(state) ==
  \/ state.current_tool_calls.isNone
  \/ \E i \in 1..Len(state.current_tool_calls.calls) :
        CallRaises(state.current_tool_calls.calls[i])

\* "iteration": `for call in None`; "tool": a tool call raised.
ToolStepError(state) ==
  IF state.current_tool_calls.isNone THEN "iteration" ELSE "tool"

\* Agent._tool_step
ToolStep(t) ==
  /\ th[t].pc = "tool_executor"
  /\ ~ToolStepRaises(th[t].state)
  /\ LET state == th[t].state
         tool_messages == ToolMessages(state.current_tool_calls.calls, th[t].inv)
         \* state["messages"] + tool_messages is a new list
         heap1 == Append(heap, heap[state.messages] \o tool_messages)
         update == [messages |-> Len(heap1), current_tool_calls |-> NoCalls,
                    session_id |-> state.session_id]
     IN /\ heap' = heap1
        /\ th' = [th EXCEPT ![t] = Applied(t, "tool_executor", update, "llm_processor")]
  /\ UNCHANGED <<runs, memory, uuidCount, modelCalls, invCount, returned, lastOf>>

ToolRaise(t) ==
  /\ th[t].pc = "tool_executor"
  /\ ToolStepRaises(th[t].state)
  /\ th' = [th EXCEPT ![t] = [@ EXCEPT !.pc = "failed",
                                       !.error = ToolStepError(th[t].state),
                                       !.history = <<>>, !.state = <<>>]]
  /\ UNCHANGED <<heap, runs, memory, uuidCount, modelCalls, invCount, returned,
                 lastOf>>

\* ------------------------------------------------------ end of invoke
\* The test before self.memory.add inverted: `if is_new_session:`.
PersistsInverted(is_new_session) == is_new_session

\* Every Run stored, temporary sessions included.
PersistsAlways(is_new_session) == TRUE

\* `if not is_new_session:` before self.memory.add
Persists(is_new_session) == ~is_new_session

\* workflow.run returns the Run; invoke stores it for a persistent session
\* and returns it.
Finish(t) ==
  /\ th[t].pc = "termination"
  /\ LET run_object == [history |-> th[t].history]
         runs1 == Append(runs, run_object)
         id == Len(runs1)
     IN /\ runs' = runs1
        /\ memory' = IF Persists(th[t].is_new_session)
                      THEN MemoryAdd(memory, id, th[t].session_id)
                      ELSE memory
        /\ returned' = Append(returned, DeepRun(heap, run_object))
        /\ lastOf' = [lastOf EXCEPT ![th[t].arg] = DeepRun(heap, run_object)]
        /\ th' = [th EXCEPT ![t] = [@ EXCEPT !.pc = "returned", !.result = id]]
  /\ UNCHANGED <<heap, uuidCount, modelCalls, invCount>>

Step(t) ==
  \/ PrepareMessagesStep(t)
  \/ \E response \in Responses(modelCalls + 1) : LlmStep(t, response)
  \/ LlmRaise(t)
  \/ ToolStep(t)
  \/ ToolRaise(t)
  \/ Finish(t)

\* One caller: invoke runs to completion before the next call is made.
Next ==
  \/ \E query \in Queries, arg \in SessionArgs : Invoke(1, query, arg)
  \/ Step(1)

Spec == Init /\ [][Next]_vars

\* The traversal alone, over one query and over a fresh and a continued
\* session.  The executor is synchronous: a started traversal keeps taking
\* steps.
LiveArgs == {None, "s1"}

LiveNext ==
  \/ \E arg \in LiveArgs : Invoke(1, "q1", arg)
  \/ Step(1)

LiveSpec == Init /\ [][LiveNext]_vars /\ WF_vars(Step(1))

\* Two callers of one Agent, interleaved step by step.  Session memory is
\* taken to do each of its operations at once; what invoke does between its
\* entry and workflow.run touches only the session of the call, so it is one
\* step here.
ConcQuery(t) == IF t = 1 THEN "q1" ELSE "q2"

\* Session ids that are pairwise distinct or absent.
ConcArgs(t) == IF t = 1 THEN {"s1", None} ELSE {"s2", None}

\* The responses of the model under two callers: no tool call, a tool call
\* that succeeds, a tool call that raises.
ConcResponses(n) ==
  { r \in Responses(n) :
      /\ r.token_usage = Usage(2)
      /\ Len(r.tool_calls) <= 1 }

ConcStep(t) ==
  \/ PrepareMessagesStep(t)
  \/ \E response \in ConcResponses(modelCalls + 1) : LlmStep(t, response)
  \/ LlmRaise(t)
  \/ ToolStep(t)
  \/ ToolRaise(t)
  \/ Finish(t)

\* One caller may first make calls alone, which gives its session a history;
\* from the first call of the other caller on, each caller finishes the call
\* it is in and starts no further one: the two calls run interleaved.
ConcInvoke(t, arg) ==
  /\ th[t].pc = "idle" \/ \A u \in Threads \ {t} : th[u].pc = "idle"
  /\ Invoke(t, ConcQuery(t), arg)

ConcNext ==
  \E t \in Threads :
    \/ \E arg \in ConcArgs(t) : ConcInvoke(t, arg)
    \/ ConcStep(t)

ConcSpec == Init /\ [][ConcNext]_vars

\* Two callers on the same session id.
RaceNext ==
  \E t \in Threads :
    \/ ConcInvoke(t, "s1")
    \/ ConcStep(t)

RaceSpec == Init /\ [][RaceNext]_vars

\* ------------------------------------------------------------ properties
Returned(t) == th[t].pc = "returned"
Failed(t) == th[t].pc = "failed"

Transcript(state) == heap[state.messages]
FinalTranscript(t) == Transcript(GetFinalState(runs[th[t].result]))
StepNames(history) == [i \in 1..Len(history) |-> history[i].step]
IsPrefix(a, b) == Len(a) <= Len(b) /\ SubSeq(b, 1, Len(a)) = a
NoStoredRun == [history |-> <<>>]

\* C1: under fair execution of the traversal, every started invoke (the
\* model returning no tool calls from some invocation on) reaches
\* Termination and returns a Run, unless the model or a tool raised.
C1_Terminates ==
  \A n \in 1..MaxModelCalls :
    (th[1].inv = n /\ th[1].pc = "message_prep")
      ~> (th[1].inv = n /\ (Returned(1) \/
                             (Failed(1) /\ th[1].error \in {"model", "tool"})))

C1_Witness == Returned(1) /\ th[1].toolRounds = 2

\* C2: a completed invoke(q2, s) that follows a completed invoke(q1, s), s
\* supplied, returns a final transcript that starts with the whole final
\* transcript of the q1 Run and ends with the q2 exchange: user q2, then the
\* assistant and tool entries of this call.
C2_Continuation ==
  \A t \in Threads :
    (Returned(t) /\ th[t].arg # None /\ th[t].before # NoStoredRun) =>
      LET prev == GetFinalState(th[t].before).messages
          now == FinalTranscript(t)
          Own(m) == m.by = th[t].inv
          own == SelectSeq(now, Own)
      IN /\ IsPrefix(prev, now)
         /\ Len(own) >= 2
         /\ SubSeq(now, Len(now) - Len(own) + 1, Len(now)) = own
         /\ own[1] = UserMessage(th[t].query, th[t].inv)
         /\ \A j \in 2..Len(own) : own[j].role \in {"assistant", "tool"}

\* C3: when invoke(q, s) returns with s supplied (any string, "" included),
\* the last Run session memory holds for s is the returned Run.
C3_PersistedUnderSuppliedId ==
  \A t \in Threads :
    (Returned(t) /\ th[t].arg # None) =>
      /\ th[t].arg \in DOMAIN memory
      /\ GetLastObject(memory, th[t].arg) = th[t].result

\* C4: a call with session_id=None starts from an empty transcript, and
\* every transcript it records holds only entries this call created.
C4_NoneIsolated ==
  \A t \in Threads :
    (th[t].arg = None /\ th[t].inv > 0) =>
      /\ th[t].seed = <<>>
      /\ \A i \in 1..Len(th[t].history) :
           \A j \in 1..Len(Transcript(th[t].history[i].state)) :
             Transcript(th[t].history[i].state)[j].by = th[t].inv
      /\ Returned(t) =>
           \A j \in 1..Len(FinalTranscript(t)) :
             FinalTranscript(t)[j].by = th[t].inv

C4_Witness ==
  /\ Returned(1) /\ th[1].arg = None /\ th[1].inv >= 2
  /\ Len(runs) >= 2 /\ lastOf[None] # NoStoredRun

\* C5: after invoke with session_id=None returns, session memory holds for
\* every session what it held before the call, and nothing under the
\* temporary id.
C5_NoneNotPersisted ==
  \A t \in Threads :
    (Returned(t) /\ th[t].arg = None) =>
      /\ DeepMemory(heap, runs, memory)
           = th[t].pre @@ (th[t].session_id :> NoStoredRun)
      /\ \A s \in DOMAIN memory : memory[s] # th[t].result

C5_Witness ==
  /\ Returned(1) /\ th[1].arg = None
  /\ \E s \in DOMAIN th[1].pre : th[1].pre[s] # NoStoredRun

HistoryShape(k) ==
  [i \in 1..(2 + 2 * k) |->
     IF i = 1 THEN "message_prep"
     ELSE IF i % 2 = 0 THEN "llm_processor" ELSE "tool_executor"]

C8_HistoryShape ==
  \A t \in Threads :
    Returned(t) =>
      StepNames(runs[th[t].result].history) = HistoryShape(th[t].toolRounds)

C8_Witness ==
  /\ Returned(1) /\ th[1].toolRounds = 1
  /\ StepNames(runs[th[1].result].history)
       = <<"message_prep", "llm_processor", "tool_executor", "llm_processor">>

\* C9: the final total_tokens of a run is the sum of the usage its model
\* invocations reported (nothing for an invocation without a report); the
\* counter is 0 after message_prep and tool_executor leaves it unchanged.
C9_TokenAccounting ==
  \A t \in Threads :
    /\ th[t].pc = "message_prep" => th[t].state.total_tokens = 0
    /\ Returned(t) =>
         LET h == runs[th[t].result].history IN
         /\ GetFinalState(runs[th[t].result]).total_tokens = th[t].reported
         /\ h[1].state.total_tokens = 0
         /\ \A i \in 2..Len(h) :
              h[i].step = "tool_executor" =>
                h[i].state.total_tokens = h[i - 1].state.total_tokens

C9_Witness ==
  /\ Returned(1) /\ th[1].toolRounds = 2 /\ th[1].reported = 4
  /\ Len(runs[th[1].result].history) = 6

\* C10: a tool-execution step whose pending calls name a tool that is not
\* configured (no configured tool of the list raising) does not raise: it
\* goes on to llm_processor, adds no tool entry with the id of such a call,
\* and adds one entry for each of the other pending calls.
UnknownCalls(calls) ==
  {i \in 1..Len(calls) : calls[i].name \notin ToolNames}

AcceptedCalls(calls) ==
  \A i \in 1..Len(calls) :
    calls[i].name \in ToolNames => JsonLoads(calls[i].arguments).kind # "list"

C10_UnknownToolSkipped ==
  [][\A t \in Threads :
       (/\ th[t].pc = "tool_executor"
        /\ th'[t].pc # "tool_executor"
        /\ ~th[t].state.current_tool_calls.isNone
        /\ UnknownCalls(th[t].state.current_tool_calls.calls) # {}
        /\ AcceptedCalls(th[t].state.current_tool_calls.calls))
       => LET calls == th[t].state.current_tool_calls.calls
              old == heap[th[t].state.messages]
              new == heap'[th'[t].state.messages]
          IN /\ th'[t].pc = "llm_processor"
             /\ IsPrefix(old, new)
             /\ Len(new) = Len(old) + Len(calls)
                              - Cardinality(UnknownCalls(calls))
             /\ \A i \in 1..Len(calls) :
                  (i \in UnknownCalls(calls)) <=>
                    ~\E j \in 1..Len(new) :
                       /\ new[j].role = "tool"
                       /\ new[j].tool_call_id = calls[i].id]_vars

C10_Witness ==
  /\ Returned(1)
  /\ \E i \in 1..Len(runs[th[1].result].history) :
       LET tc == runs[th[1].result].history[i].state.current_tool_calls IN
       ~tc.isNone /\ UnknownCalls(tc.calls) # {}

\* C11: a tool-execution step whose pending calls hold a call of a
\* configured tool with an arguments text that does not parse into a mapping
\* does not raise: it goes on to llm_processor and the transcript gets the
\* entry of that tool invoked with no arguments.
NoMapping(text) == JsonLoads(text).raises \/ JsonLoads(text).kind # "dict"

MalformedCalls(calls) ==
  {i \in 1..Len(calls) :
     calls[i].name \in ToolNames /\ NoMapping(calls[i].arguments)}

C11_MalformedArgumentsTolerated ==
  [][\A t \in Threads :
       (/\ th[t].pc = "tool_executor"
        /\ th'[t].pc # "tool_executor"
        /\ ~th[t].state.current_tool_calls.isNone
        /\ MalformedCalls(th[t].state.current_tool_calls.calls) # {})
       => /\ th'[t].pc = "llm_processor"
          /\ \A i \in MalformedCalls(th[t].state.current_tool_calls.calls) :
               LET call == th[t].state.current_tool_calls.calls[i]
                   new == heap'[th'[t].state.messages]
               IN \E j \in 1..Len(new) :
                    /\ new[j].role = "tool"
                    /\ new[j].tool_call_id = call.id
                    /\ new[j].content
                         = JsonDumps(ToolResult(call.name, EmptyArgs))]_vars

\* C13: the node after llm_processor is tool_executor when the pending
\* tool-call list of the state is non-empty and Termination when it is None
\* or empty; the decision reads nothing but the pending tool calls.
Pending(state) ==
  ~state.current_tool_calls.isNone /\ state.current_tool_calls.calls # <<>>

Routed(state) == IF Pending(state) THEN "tool_executor" ELSE "termination"

C13_RoutingRule ==
  \A t \in Threads :
       LET h == th[t].history IN
       /\ th[t].pc \in {"tool_executor", "termination"} =>
            /\ th[t].pc = Routed(th[t].state)
            /\ check_tool_calls(
                 [th[t].state EXCEPT !.current_tool_calls = SomeCalls(<<>>)])
                 = "termination"
            /\ check_tool_calls(th[t].state)
                 = check_tool_calls(
                     [current_tool_calls |-> th[t].state.current_tool_calls])
       /\ \A i \in 1..Len(h) :
            h[i].step = "llm_processor" =>
              /\ i < Len(h) =>
                   h[i + 1].step = "tool_executor" /\ Pending(h[i].state)
              /\ (i = Len(h) /\ th[t].pc \in {"termination", "returned"}) =>
                   ~Pending(h[i].state)

C13_Witness ==
  /\ th[1].pc = "termination" /\ Len(th[1].history) = 4
  /\ th[1].history[2].state.current_tool_calls.calls # <<>>

\* C14: a tool-execution step that returns leaves the prior transcript
\* followed by one tool entry per pending call of a configured tool, in the
\* order of the pending calls, each with the id and tool name of its call,
\* and leaves no pending tool calls.
ConfiguredCalls(calls) ==
  LET Known(c) == c.name \in ToolNames IN SelectSeq(calls, Known)

C14_ToolStepOutput ==
  \A t \in Threads :
    LET h == th[t].history IN
    \A i \in 2..Len(h) :
      h[i].step = "tool_executor" =>
        LET old == Transcript(h[i - 1].state)
            new == Transcript(h[i].state)
            known == ConfiguredCalls(h[i - 1].state.current_tool_calls.calls)
        IN /\ IsPrefix(old, new)
           /\ Len(new) = Len(old) + Len(known)
           /\ \A j \in 1..Len(known) :
                /\ new[Len(old) + j].role = "tool"
                /\ new[Len(old) + j].tool_call_id = known[j].id
                /\ new[Len(old) + j].name = known[j].name
           /\ h[i].state.current_tool_calls.isNone

C14_Witness ==
  /\ Returned(1) /\ Len(th[1].history) >= 4
  /\ th[1].history[3].step = "tool_executor"
  /\ Len(ConfiguredCalls(th[1].history[2].state.current_tool_calls.calls)) = 2

\* C15: in every state recorded during a run user_query and instructions
\* have their initial values, message_prep leaves current_tool_calls and
\* total_tokens as they were, and tool_executor leaves total_tokens as it
\* was.
C15_KeyPreservingMerge ==
  \A t \in Threads :
    LET h == th[t].history IN
    /\ \A i \in 1..Len(h) :
         /\ h[i].state.user_query = th[t].query
         /\ h[i].state.instructions = instructions
         /\ (i > 1 /\ h[i].step = "tool_executor") =>
              h[i].state.total_tokens = h[i - 1].state.total_tokens
    /\ Len(h) >= 1 =>
         /\ h[1].step = "message_prep"
         /\ h[1].state.current_tool_calls = NoCalls
         /\ h[1].state.total_tokens = 0

C15_Witness ==
  /\ Returned(1) /\ th[1].query = "q2" /\ th[1].toolRounds = 1
  /\ GetFinalState(runs[th[1].result]).user_query = "q2"

\* C17: within a run the transcript only grows: message_prep leaves the
\* prior transcript (the system entry when it was empty) followed by one
\* user entry, every later record extends the record before it, and a model
\* invocation adds exactly one assistant entry.
C17_AppendOnly ==
  \A t \in Threads :
    LET h == th[t].history IN
    /\ Len(h) >= 1 =>
         Transcript(h[1].state)
           = (IF th[t].seed = <<>>
              THEN <<SystemMessage(instructions, th[t].inv)>>
              ELSE th[t].seed)
             \o <<UserMessage(th[t].query, th[t].inv)>>
    /\ \A i \in 2..Len(h) :
         LET old == Transcript(h[i - 1].state)
             new == Transcript(h[i].state)
         IN /\ IsPrefix(old, new)
            /\ h[i].step = "llm_processor" =>
                 Len(new) = Len(old) + 1 /\ new[Len(new)].role = "assistant"
            /\ \A j \in (Len(old) + 1)..Len(new) :
                 new[j].role \in {"assistant", "tool"}

C17_Witness ==
  /\ Returned(1) /\ th[1].seed # <<>> /\ Len(th[1].history) = 4
  /\ Len(FinalTranscript(1)) > Len(th[1].seed) + 2

\* C18: the final transcript of every Run session memory holds, and of the
\* Run just returned, has exactly one system entry: its first entry, with
\* the instructions of the agent.
OneSystemEntry(transcript) ==
  /\ Len(transcript) >= 1
  /\ transcript[1].role = "system"
  /\ transcript[1].content = instructions
  /\ \A j \in 2..Len(transcript) : transcript[j].role # "system"

C18_SingleSystemEntry ==
  /\ \A s \in DOMAIN memory :
       memory[s] # NoRun =>
         OneSystemEntry(Transcript(GetFinalState(runs[memory[s]])))
  /\ \A t \in Threads : Returned(t) => OneSystemEntry(FinalTranscript(t))

C18_Witness ==
  /\ Returned(1) /\ th[1].arg = "s1" /\ th[1].before # NoStoredRun
  /\ Len(FinalTranscript(1)) >= 6

\* C19: tool_executor is entered only with a non-empty list of pending tool
\* calls, its loop never fails on the list, and the final state of a
\* returned Run has no pending tool calls.
C19_ToolStepHasCalls ==
  \A t \in Threads :
    /\ th[t].pc = "tool_executor" =>
         /\ ~th[t].state.current_tool_calls.isNone
         /\ Len(th[t].state.current_tool_calls.calls) >= 1
    /\ Failed(t) => th[t].error # "iteration"
    /\ Returned(t) =>
         GetFinalState(runs[th[t].result]).current_tool_calls = NoCalls

C19_Witness ==
  /\ th[1].pc = "tool_executor"
  /\ Len(th[1].state.current_tool_calls.calls) = 3

OnlyBy(transcript, invs) ==
  \A j \in 1..Len(transcript) : transcript[j].by \in invs

C12_DistinctSessionsIndependent ==
  \A t \in Threads :
    th[t].inv > 0 =>
      LET own == IF th[t].arg = None THEN {th[t].inv} ELSE th[t].mine IN
      /\ OnlyBy(th[t].seed, own)
      /\ th[t].arg = None => th[t].seed = <<>>
      /\ \A i \in 1..Len(th[t].history) :
           OnlyBy(Transcript(th[t].history[i].state), own)
      /\ Returned(t) =>
           /\ DeepRun(heap, runs[th[t].result]) = returned[th[t].result]
           /\ FinalTranscript(t)
                = th[t].seed \o SubSeq(FinalTranscript(t),
                                       Len(th[t].seed) + 1,
                                       Len(FinalTranscript(t)))
           /\ OnlyBy(SubSeq(FinalTranscript(t), Len(th[t].seed) + 1,
                            Len(FinalTranscript(t))), {th[t].inv})
           /\ IF th[t].arg = None
              THEN \A s \in DOMAIN memory : memory[s] # th[t].result
              ELSE GetLastObject(memory, th[t].arg) = th[t].result

\* Both callers have returned from calls that ran interleaved.
Overlapped ==
  /\ Returned(1) /\ Returned(2)
  /\ th[1].result > th[2].runsAtStart
  /\ th[2].result > th[1].runsAtStart

C12_Witness ==
  /\ Overlapped
  /\ th[1].arg = "s1" /\ th[2].arg = "s2"
  /\ th[1].seed # <<>>

\* C16: when two calls on the same session id have run interleaved, the Run
\* finally stored for the id is the Run of the call that returned last, and
\* its final transcript has no assistant entry of the other call: the
\* exchange of the other call is not in it.
C16_SameSessionRace ==
  Overlapped =>
    LET last == IF th[1].result > th[2].result THEN 1 ELSE 2
        other == 3 - last
    IN /\ GetLastObject(memory, "s1") = th[last].result
       /\ \A j \in 1..Len(FinalTranscript(last)) :
            ~(/\ FinalTranscript(last)[j].role = "assistant"
              /\ FinalTranscript(last)[j].by = th[other].inv)

\* The stored transcript even holds the user entry of the other call.
C16_Witness ==
  /\ Overlapped
  /\ LET last == IF th[1].result > th[2].result THEN 1 ELSE 2
         other == 3 - last
     IN \E j \in 1..Len(FinalTranscript(last)) :
          /\ FinalTranscript(last)[j].role = "user"
          /\ FinalTranscript(last)[j].by = th[other].inv

====
